---- MODULE Spec2Model ----
(***************************************************************************)
(* Model of the stable-dracor workflow notebook and its compose files.     *)
(*                                                                         *)
(*   - get(), the HTTP helper of stable-dracor-workflow.ipynb              *)
(*   - the notebook cells that create a corpus and load one play from a    *)
(*     pinned GitHub commit (requests.post / requests.get / requests.put)  *)
(*   - the two compose files (docker-compose.empty.yml and the full stack  *)
(*     compose file) as a start-up system ordered by depends_on            *)
(*                                                                         *)
(* Python str values are TLA+ strings; the characters of a string s are    *)
(* SubSeq(s, i, i).  The body of the downloaded TEI file is a sequence of  *)
(* Unicode code points, because the only thing the notebook does with it   *)
(* is to encode it as UTF-8.                                               *)
(***************************************************************************)
EXTENDS Integers, Sequences, FiniteSets, TLC

VARIABLES
    pc,              \* position of the notebook kernel
    caller,          \* who called get(): "user" or the "check" cell
    kwargs,          \* get(): the keyword arguments, a function on the keys given
    request_url,     \* get(): local request_url
    get_r,           \* get(): local r, the response of requests.get
    ret,             \* get(): the value returned (None until it returns)
    exc,             \* the exception that reached the caller (None if none)
    sent,            \* every HTTP request issued so far, with its response status
    r,               \* notebook global r
    stdout,          \* what the cells printed
    corpus_repo_part, commit_id, filename,   \* notebook globals of the load section
    download_url, tei, playname, put_request_url, headers,
    file,            \* compose: the compose file given to docker-compose up
    container,       \* compose: per service "absent", "pulled", "created" or "running"
    started          \* compose: services in the order they were started

getvars     == <<caller, kwargs, request_url, get_r, ret, exc>>
loadvars    == <<corpus_repo_part, commit_id, filename, download_url, tei,
                 playname, put_request_url, headers>>
composevars == <<file, container, started>>
vars == <<pc, getvars, sent, r, stdout, loadvars, composevars>>

None == "None"

-----------------------------------------------------------------------------
(* Bounds                                                                  *)

MaxTextLen   == 2     \* longest response text of the document API
MaxNameParts == 3     \* longest filename, in parts
MaxTeiLen    == 1     \* longest downloaded file, in code points

-----------------------------------------------------------------------------
(* Python str helpers                                                      *)

Char(s, i) == SubSeq(s, i, i)

\* str.endswith
EndsWith(s, suffix) ==
    /\ Len(s) >= Len(suffix)
    /\ SubSeq(s, Len(s) - Len(suffix) + 1, Len(s)) = suffix

\* str.find(sep, from): lowest index >= from where sep occurs, 0 if none
Find(s, sep, from) ==
    LET hits == { i \in from..(Len(s) - Len(sep) + 1) :
                      SubSeq(s, i, i + Len(sep) - 1) = sep }
    IN  IF hits = {} THEN 0 ELSE CHOOSE i \in hits : \A j \in hits : i <= j

\* str.split(sep): the list of the pieces of s between occurrences of sep
RECURSIVE Split(_, _)
Split(s, sep) ==
    LET i == Find(s, sep, 1)
    IN  IF i = 0 THEN <<s>>
        ELSE <<SubSeq(s, 1, i - 1)>> \o Split(SubSeq(s, i + Len(sep), Len(s)), sep)

Digits == "0123456789"

\* str(int) for a non-negative int
RECURSIVE Str(_)
Str(n) == IF n < 10 THEN Char(Digits, n + 1)
          ELSE Str(n \div 10) \o Char(Digits, (n % 10) + 1)

\* all strings of exactly k characters / of at most k characters over chars
RECURSIVE StringsOfLen(_, _)
StringsOfLen(chars, k) ==
    IF k = 0 THEN {""}
    ELSE { s \o c : s \in StringsOfLen(chars, k - 1), c \in chars }

StringsUpTo(chars, k) == UNION { StringsOfLen(chars, n) : n \in 0..k }

-----------------------------------------------------------------------------
(* json.loads on the texts the model draws: numbers and arrays             *)

JsonFail == [ok |-> FALSE, val |-> <<"none">>, next |-> 0]

IsDigit(c) == Len(c) = 1 /\ Find(Digits, c, 1) > 0

\* first position >= i that holds no digit
RECURSIVE SkipDigits(_, _)
SkipDigits(s, i) ==
    IF i <= Len(s) /\ IsDigit(Char(s, i)) THEN SkipDigits(s, i + 1) ELSE i

RECURSIVE ToInt(_)
ToInt(s) == IF s = "" THEN 0
            ELSE 10 * ToInt(SubSeq(s, 1, Len(s) - 1))
                 + (Find(Digits, Char(s, Len(s)), 1) - 1)

RECURSIVE ParseValue(_, _)
RECURSIVE ParseElems(_, _, _)

ParseValue(s, i) ==
    IF i > Len(s) THEN JsonFail
    ELSE IF Char(s, i) = "[" THEN
        IF i + 1 <= Len(s) /\ Char(s, i + 1) = "]"
        THEN [ok |-> TRUE, val |-> <<"list", <<>>>>, next |-> i + 2]
        ELSE ParseElems(s, i + 1, <<>>)
    ELSE IF Char(s, i) = "0" THEN
        [ok |-> TRUE, val |-> <<"num", 0>>, next |-> i + 1]
    ELSE IF IsDigit(Char(s, i)) THEN
        LET j == SkipDigits(s, i)
        IN  [ok |-> TRUE, val |-> <<"num", ToInt(SubSeq(s, i, j - 1))>>, next |-> j]
    ELSE JsonFail

ParseElems(s, i, acc) ==
    LET v == ParseValue(s, i)
    IN  IF ~v.ok \/ v.next > Len(s) THEN JsonFail
        ELSE IF Char(s, v.next) = ","
             THEN ParseElems(s, v.next + 1, Append(acc, v.val))
        ELSE IF Char(s, v.next) = "]"
             THEN [ok |-> TRUE, val |-> <<"list", Append(acc, v.val)>>,
                   next |-> v.next + 1]
        ELSE JsonFail

\* json.loads(s): ok is FALSE where Python raises json.JSONDecodeError
JsonLoads(s) ==
    LET v == ParseValue(s, 1)
    IN  IF v.ok /\ v.next = Len(s) + 1 THEN v ELSE JsonFail

-----------------------------------------------------------------------------
(* get()                                                                   *)

DefaultApiBase == "http://localhost:8088/api/"

ApiBases    == {"https://dracor.org/api", "https://dracor.org/api/",
                "https://dracor.org/api//"}
CorpusNames == {"tat"}
PlayNames   == {"emilia"}
Methods     == {"corpora", "tei"}
Flags       == {"True", "False"}          \* Python True / False
StatusCodes == {200, 204, 404}
TextChars   == {"1", "[", "]", ",", "<"}
Texts       == StringsUpTo(TextChars, MaxTextLen)

Has(kw, key) == key \in DOMAIN kw

\* a dict with the keys ks, each drawn from its value set
ValuesOf(key) ==
    CASE key = "apibase"    -> ApiBases
      [] key = "corpusname" -> CorpusNames
      [] key = "playname"   -> PlayNames
      [] key = "method"     -> Methods
      [] key = "parse_json" -> Flags

Keys == {"apibase", "corpusname", "playname", "method", "parse_json"}

KwargsSet == UNION { { kw \in [ks -> UNION { ValuesOf(k) : k \in ks }] :
                          \A k \in ks : kw[k] \in ValuesOf(k) } : ks \in SUBSET Keys }

\* ApiBase that appends "/" without looking at the end of the apibase given
ApiBaseAlwaysAppend(kw) ==
    IF Has(kw, "apibase") THEN kw["apibase"] \o "/"
    ELSE DefaultApiBase

\* the apibase used
ApiBase(kw) ==
    IF Has(kw, "apibase") THEN
        IF EndsWith(kw["apibase"], "/") THEN kw["apibase"]
        ELSE kw["apibase"] \o "/"
    ELSE DefaultApiBase

\* RequestUrl with the "/" before the method forgotten when only a corpus is given
RequestUrlNoSlash(kw) ==
    LET apibase == ApiBase(kw)
    IN  IF Has(kw, "corpusname") /\ Has(kw, "playname") THEN
            IF Has(kw, "method")
            THEN apibase \o "corpora/" \o kw["corpusname"] \o "/play/"
                         \o kw["playname"] \o "/" \o kw["method"]
            ELSE apibase \o "corpora/" \o kw["corpusname"] \o "/play/"
                         \o kw["playname"]
        ELSE IF Has(kw, "corpusname") /\ ~Has(kw, "playname") THEN
            IF Has(kw, "method")
            THEN apibase \o "corpora/" \o kw["corpusname"] \o kw["method"]
            ELSE apibase \o "corpora/" \o kw["corpusname"]
        ELSE IF Has(kw, "method") /\ ~Has(kw, "corpusname") /\ ~Has(kw, "playname")
        THEN apibase \o kw["method"]
        ELSE apibase \o "info"

\* RequestUrl whose method branch forgets to ask that no playname is given
RequestUrlMethodWins(kw) ==
    LET apibase == ApiBase(kw)
    IN  IF Has(kw, "corpusname") /\ Has(kw, "playname") THEN
            IF Has(kw, "method")
            THEN apibase \o "corpora/" \o kw["corpusname"] \o "/play/"
                         \o kw["playname"] \o "/" \o kw["method"]
            ELSE apibase \o "corpora/" \o kw["corpusname"] \o "/play/"
                         \o kw["playname"]
        ELSE IF Has(kw, "corpusname") /\ ~Has(kw, "playname") THEN
            IF Has(kw, "method")
            THEN apibase \o "corpora/" \o kw["corpusname"] \o "/" \o kw["method"]
            ELSE apibase \o "corpora/" \o kw["corpusname"]
        ELSE IF Has(kw, "method") /\ ~Has(kw, "corpusname")
        THEN apibase \o kw["method"]
        ELSE apibase \o "info"

\* the request_url built from the keyword arguments
RequestUrl(kw) ==
    LET apibase == ApiBase(kw)
    IN  IF Has(kw, "corpusname") /\ Has(kw, "playname") THEN
            IF Has(kw, "method")
            THEN apibase \o "corpora/" \o kw["corpusname"] \o "/play/"
                         \o kw["playname"] \o "/" \o kw["method"]
            ELSE apibase \o "corpora/" \o kw["corpusname"] \o "/play/"
                         \o kw["playname"]
        ELSE IF Has(kw, "corpusname") /\ ~Has(kw, "playname") THEN
            IF Has(kw, "method")
            THEN apibase \o "corpora/" \o kw["corpusname"] \o "/" \o kw["method"]
            ELSE apibase \o "corpora/" \o kw["corpusname"]
        ELSE IF Has(kw, "method") /\ ~Has(kw, "corpusname") /\ ~Has(kw, "playname")
        THEN apibase \o kw["method"]
        ELSE apibase \o "info"

ErrorPrefix == "Request was not successful. Server returned status code: "

\* one entry of the log of requests: what was sent and the status that came back
Request(verb, url, auth, hdrs, data, status) ==
    [verb |-> verb, url |-> url, auth |-> auth, headers |-> hdrs,
     data |-> data, status |-> status]

NoAuth    == <<>>
NoHeaders == <<>>
NoData    == <<>>

NoResponse == [status_code |-> 0, text |-> ""]

\* the user calls get() with some keyword arguments
get_call ==
    /\ pc = "idle"
    /\ \E kw \in KwargsSet : kwargs' = kw
    /\ caller' = "user"
    /\ pc' = "get_build"
    /\ UNCHANGED <<request_url, get_r, ret, exc, sent, r, stdout, loadvars, composevars>>

\* the if/elif chain that builds request_url
get_build ==
    /\ pc = "get_build"
    /\ request_url' = RequestUrl(kwargs)
    /\ pc' = "get_request"
    /\ UNCHANGED <<caller, kwargs, get_r, ret, exc, sent, r, stdout, loadvars, composevars>>

\* r = requests.get(request_url): the server answers with some status and text
get_request ==
    /\ pc = "get_request"
    /\ \E s \in StatusCodes, t \in Texts :
          /\ get_r' = [status_code |-> s, text |-> t]
          /\ sent' = Append(sent, Request("GET", request_url, NoAuth, NoHeaders, NoData, s))
    /\ pc' = "get_status"
    /\ UNCHANGED <<caller, kwargs, request_url, ret, exc, r, stdout, loadvars, composevars>>

\* the branch on r.status_code == 200: return the text, or the parsed text
get_return ==
    /\ pc = "get_status"
    /\ get_r.status_code = 200
    /\ IF Has(kwargs, "parse_json") /\ kwargs["parse_json"] = "True"
       THEN IF JsonLoads(get_r.text).ok
            THEN /\ ret' = <<"json", JsonLoads(get_r.text).val>>
                 /\ exc' = None
                 /\ pc' = "get_returned"
            ELSE /\ ret' = ret
                 /\ exc' = "json.JSONDecodeError"
                 /\ pc' = "get_raised"
       ELSE /\ ret' = <<"text", get_r.text>>
            /\ exc' = None
            /\ pc' = "get_returned"
    /\ UNCHANGED <<caller, kwargs, request_url, get_r, sent, r, stdout, loadvars, composevars>>

\* get_raise that tries the request again instead of raising
get_raise_retry ==
    /\ pc = "get_status"
    /\ get_r.status_code # 200
    /\ pc' = "get_request"
    /\ UNCHANGED <<caller, kwargs, request_url, get_r, ret, exc, sent, r, stdout,
                   loadvars, composevars>>

\* the else branch: raise Exception(... + str(r.status_code))
get_raise ==
    /\ pc = "get_status"
    /\ get_r.status_code # 200
    /\ exc' = ErrorPrefix \o Str(get_r.status_code)
    /\ pc' = "get_raised"
    /\ UNCHANGED <<caller, kwargs, request_url, get_r, ret, sent, r, stdout, loadvars, composevars>>

\* control is back with the user who called get()
get_done ==
    /\ pc \in {"get_returned", "get_raised"}
    /\ caller = "user"
    /\ pc' = "done"
    /\ UNCHANGED <<getvars, sent, r, stdout, loadvars, composevars>>

-----------------------------------------------------------------------------
(* The notebook cells, run top to bottom; the kernel stops at the first    *)
(* cell that raises                                                        *)

new_corpus_name  == "whatever"
new_corpus_title == "Whatever new corpus"
usr == "admin"
pwd == ""
metadata == [name |-> new_corpus_name, title |-> new_corpus_title]
corpora_endpoint_url == "http://localhost:8088/api/corpora"

HTTPBasicAuth(u, p) == <<"Basic", u, p>>

Repos     == {"gerdracor", "tatdracor"}
Commits   == {"bfadf6b", "9135bd4"}
NameParts == {"emilia", ".xml"}

\* filenames: one to k parts, each a stem or the extension
RECURSIVE NamesOfParts(_)
NamesOfParts(k) ==
    IF k = 0 THEN {""}
    ELSE { n \o p : n \in NamesOfParts(k - 1), p \in NameParts }

Filenames == UNION { NamesOfParts(k) : k \in 1..MaxNameParts }

\* the code points a downloaded file is made of: a, e-acute, euro sign, an emoji
CodePoints == {97, 233, 8364, 128512}

RECURSIVE CodePointSeqs(_)
CodePointSeqs(k) ==
    IF k = 0 THEN {<<>>}
    ELSE { Append(t, c) : t \in CodePointSeqs(k - 1), c \in CodePoints }

TeiTexts == UNION { CodePointSeqs(k) : k \in 0..MaxTeiLen }

\* the UTF-8 bytes of one code point
Utf8Bytes(c) ==
    IF c < 128 THEN <<c>>
    ELSE IF c < 2048 THEN <<192 + (c \div 64), 128 + (c % 64)>>
    ELSE IF c < 65536 THEN
        <<224 + (c \div 4096), 128 + ((c \div 64) % 64), 128 + (c % 64)>>
    ELSE <<240 + (c \div 262144), 128 + ((c \div 4096) % 64),
           128 + ((c \div 64) % 64), 128 + (c % 64)>>

\* str.encode('utf-8')
RECURSIVE Utf8Encode(_)
Utf8Encode(text) ==
    IF text = <<>> THEN <<>>
    ELSE Utf8Bytes(Head(text)) \o Utf8Encode(Tail(text))

\* DownloadUrl with the repository and the commit in each other's place
DownloadUrlSwapped(repo, commit, fname) ==
    "https://raw.githubusercontent.com/dracor-org/" \o commit \o "/" \o repo
        \o "/tei/" \o fname

DownloadUrl(repo, commit, fname) ==
    "https://raw.githubusercontent.com/dracor-org/" \o repo \o "/" \o commit
        \o "/tei/" \o fname

\* filename.split(".xml")[0]
PlayName(fname) == Split(fname, ".xml")[1]

\* PutRequestUrl that addresses the play instead of its TEI document
PutRequestUrlNoTei(corpus, play) ==
    "http://localhost:8088/api/corpora/" \o corpus \o "/play/" \o play

PutRequestUrl(corpus, play) ==
    "http://localhost:8088/api/corpora/" \o corpus \o "/play/" \o play \o "/tei"

XmlHeaders == <<"Content-Type", "application/xml">>

\* the cell that creates the corpus: requests.post, "Success!" printed on 200
cell_create_corpus ==
    /\ pc = "idle"
    /\ \E s \in StatusCodes :
          /\ sent' = Append(sent, Request("POST", corpora_endpoint_url,
                                          HTTPBasicAuth(usr, pwd), NoHeaders,
                                          metadata, s))
          /\ r' = [status_code |-> s, text |-> <<>>]
          /\ stdout' = IF s = 200
                       THEN Append(stdout, "Success!" \o " http://localhost:8088/"
                                              \o new_corpus_name)
                       ELSE stdout
    /\ pc' = "cell_check"
    /\ UNCHANGED <<getvars, loadvars, composevars>>

\* the cell get(method="corpora", parse_json=True)
cell_check ==
    /\ pc = "cell_check"
    /\ kwargs' = [k \in {"method", "parse_json"} |->
                     IF k = "method" THEN "corpora" ELSE "True"]
    /\ caller' = "check"
    /\ pc' = "get_build"
    /\ UNCHANGED <<request_url, get_r, ret, exc, sent, r, stdout, loadvars, composevars>>

\* get() returned to the cell: the next cell runs
cell_check_done ==
    /\ pc = "get_returned"
    /\ caller = "check"
    /\ pc' = "cell_vars"
    /\ UNCHANGED <<getvars, sent, r, stdout, loadvars, composevars>>

\* get() raised in the cell: the run stops there
cell_check_failed ==
    /\ pc = "get_raised"
    /\ caller = "check"
    /\ pc' = "halted"
    /\ UNCHANGED <<getvars, sent, r, stdout, loadvars, composevars>>

\* the cell that defines corpus_repo_part, commit_id and filename
cell_vars ==
    /\ pc = "cell_vars"
    /\ \E repo \in Repos, commit \in Commits, fname \in Filenames :
          /\ corpus_repo_part' = repo
          /\ commit_id' = commit
          /\ filename' = fname
    /\ pc' = "cell_download_url"
    /\ UNCHANGED <<getvars, sent, r, stdout, download_url, tei, playname,
                   put_request_url, headers, composevars>>

\* the cell that concatenates and prints download_url
cell_download_url ==
    /\ pc = "cell_download_url"
    /\ download_url' = DownloadUrl(corpus_repo_part, commit_id, filename)
    /\ stdout' = Append(stdout, download_url')
    /\ pc' = "cell_download"
    /\ UNCHANGED <<getvars, sent, r, corpus_repo_part, commit_id, filename, tei,
                   playname, put_request_url, headers, composevars>>

\* r = requests.get(download_url); tei = r.text.encode('utf-8')
cell_download ==
    /\ pc = "cell_download"
    /\ \E s \in StatusCodes, t \in TeiTexts :
          /\ sent' = Append(sent, Request("GET", download_url, NoAuth, NoHeaders,
                                          NoData, s))
          /\ r' = [status_code |-> s, text |-> t]
          /\ tei' = Utf8Encode(t)
    /\ pc' = "cell_playname"
    /\ UNCHANGED <<getvars, stdout, corpus_repo_part, commit_id, filename,
                   download_url, playname, put_request_url, headers, composevars>>

\* playname = filename.split(".xml")[0]
cell_playname ==
    /\ pc = "cell_playname"
    /\ playname' = PlayName(filename)
    /\ pc' = "cell_put_url"
    /\ UNCHANGED <<getvars, sent, r, stdout, corpus_repo_part, commit_id, filename,
                   download_url, tei, put_request_url, headers, composevars>>

\* the cell that builds put_request_url
cell_put_url ==
    /\ pc = "cell_put_url"
    /\ put_request_url' = PutRequestUrl(new_corpus_name, playname)
    /\ pc' = "cell_headers"
    /\ UNCHANGED <<getvars, sent, r, stdout, corpus_repo_part, commit_id, filename,
                   download_url, tei, playname, headers, composevars>>

\* headers = {'Content-Type': 'application/xml'}
cell_headers ==
    /\ pc = "cell_headers"
    /\ headers' = XmlHeaders
    /\ pc' = "cell_put"
    /\ UNCHANGED <<getvars, sent, r, stdout, corpus_repo_part, commit_id, filename,
                   download_url, tei, playname, put_request_url, composevars>>

\* r = requests.put(put_request_url, data=tei, headers=headers, auth=...)
cell_put ==
    /\ pc = "cell_put"
    /\ \E s \in StatusCodes :
          /\ sent' = Append(sent, Request("PUT", put_request_url,
                                          HTTPBasicAuth(usr, pwd), headers, tei, s))
          /\ r' = [status_code |-> s, text |-> <<>>]
    /\ pc' = "done"
    /\ UNCHANGED <<getvars, stdout, loadvars, composevars>>

-----------------------------------------------------------------------------
(* The compose files: docker-compose -f <file> up                          *)

Services == {"api", "metrics", "frontend", "fuseki"}

EmptyYml     == "docker-compose.empty.yml"
FullstackYml == "compose.fullstack.yml"
ComposeFiles == {EmptyYml, FullstackYml}

\* DependsOn with fuseki missing from the depends_on of api
DependsOnNoFuseki(f, s) ==
    CASE s = "api"      -> {"metrics"}
      [] s = "metrics"  -> {}
      [] s = "frontend" -> {"api"}
      [] s = "fuseki"   -> {}

\* depends_on of service s in compose file f
DependsOn(f, s) ==
    IF f = EmptyYml
    THEN CASE s = "api"      -> {"metrics", "fuseki"}
           [] s = "metrics"  -> {}
           [] s = "frontend" -> {"api"}
           [] s = "fuseki"   -> {}
    ELSE CASE s = "api"      -> {"fuseki", "metrics"}
           [] s = "metrics"  -> {}
           [] s = "frontend" -> {"api"}
           [] s = "fuseki"   -> {}

\* image of service s in compose file f
Image(f, s) ==
    IF f = EmptyYml
    THEN CASE s = "api"      -> "ingoboerner/dracor-api:v0.86.3_local"
           [] s = "metrics"  -> "ingoboerner/dracor-metrics:v1.2.1"
           [] s = "frontend" -> "ingoboerner/dracor-frontend:v1.4.3_local"
           [] s = "fuseki"   -> "stain/jena-fuseki"
    ELSE CASE s = "api"      -> "dracor/dracor-api:v0.90.1-local"
           [] s = "metrics"  -> "dracor/dracor-metrics:v1.2.0"
           [] s = "frontend" -> "dracor/dracor-frontend:v1.6.0-dirty"
           [] s = "fuseki"   -> "dracor/dracor-fuseki:v1.0.0"

\* the services compose file f declares
Declared(f) ==
    IF f = EmptyYml
    THEN {"api", "metrics", "frontend", "fuseki"}
    ELSE {"api", "metrics", "frontend", "fuseki"}

\* Ports with the frontend published on the host port of the api
PortsFrontendOn8080(f, s) ==
    CASE s = "api"      -> "8080:8080"
      [] s = "metrics"  -> "8030:8030"
      [] s = "frontend" -> "8080:80"
      [] s = "fuseki"   -> "3030:3030"

\* the ports entry "host:container" of service s in compose file f
Ports(f, s) ==
    IF f = EmptyYml
    THEN CASE s = "api"      -> "8080:8080"
           [] s = "metrics"  -> "8030:8030"
           [] s = "frontend" -> "8088:80"
           [] s = "fuseki"   -> "3030:3030"
    ELSE CASE s = "api"      -> "8080:8080"
           [] s = "metrics"  -> "8030:8030"
           [] s = "frontend" -> "8088:80"
           [] s = "fuseki"   -> "3030:3030"

\* the two sides of a ports entry, as numbers
HostPort(f, s)      == ToInt(Split(Ports(f, s), ":")[1])
ContainerPort(f, s) == ToInt(Split(Ports(f, s), ":")[2])

Running == { s \in Services : container[s] = "running" }

\* the host ports the running containers publish
Published == { HostPort(file, s) : s \in Running }

\* docker-compose -f f up
compose_up(f) ==
    /\ file = None
    /\ file' = f
    /\ UNCHANGED <<pc, getvars, sent, r, stdout, loadvars, container, started>>

\* the image of service s is pulled
pull_image(s) ==
    /\ file # None
    /\ container[s] = "absent"
    /\ container' = [container EXCEPT ![s] = "pulled"]
    /\ UNCHANGED <<pc, getvars, sent, r, stdout, loadvars, file, started>>

\* the container of service s is created from its image
create_container(s) ==
    /\ file # None
    /\ container[s] = "pulled"
    /\ container' = [container EXCEPT ![s] = "created"]
    /\ UNCHANGED <<pc, getvars, sent, r, stdout, loadvars, file, started>>

\* service s is started once everything it depends on has been started
start_service(s) ==
    /\ file # None
    /\ container[s] = "created"
    /\ DependsOn(file, s) \subseteq Running
    /\ container' = [container EXCEPT ![s] = "running"]
    /\ started' = Append(started, s)
    /\ UNCHANGED <<pc, getvars, sent, r, stdout, loadvars, file>>

-----------------------------------------------------------------------------

Init ==
    /\ pc = "idle"
    /\ caller = None
    /\ kwargs = <<>>
    /\ request_url = None
    /\ get_r = NoResponse
    /\ ret = <<None>>
    /\ exc = None
    /\ sent = <<>>
    /\ r = [status_code |-> 0, text |-> <<>>]
    /\ stdout = <<>>
    /\ corpus_repo_part = None /\ commit_id = None /\ filename = None
    /\ download_url = None /\ tei = <<>> /\ playname = None
    /\ put_request_url = None /\ headers = <<>>
    /\ file = None
    /\ container = [s \in Services |-> "absent"]
    /\ started = <<>>

\* the notebook: a call of get() by the user, or the cells run top to bottom
Next ==
    \/ get_call
    \/ get_build
    \/ get_request
    \/ get_return
    \/ get_raise
    \/ get_done
    \/ cell_create_corpus
    \/ cell_check
    \/ cell_check_done
    \/ cell_check_failed
    \/ cell_vars
    \/ cell_download_url
    \/ cell_download
    \/ cell_playname
    \/ cell_put_url
    \/ cell_headers
    \/ cell_put

Spec == Init /\ [][Next]_vars

\* docker-compose up on either compose file
NextCompose ==
    \/ \E f \in ComposeFiles : compose_up(f)
    \/ \E s \in Services : pull_image(s)
    \/ \E s \in Services : create_container(s)
    \/ \E s \in Services : start_service(s)

\* docker-compose up runs every step it can run
SpecCompose ==
    /\ Init
    /\ [][NextCompose]_vars
    /\ \A f \in ComposeFiles : WF_vars(compose_up(f))
    /\ \A s \in Services :
          WF_vars(pull_image(s)) /\ WF_vars(create_container(s))
              /\ WF_vars(start_service(s))

-----------------------------------------------------------------------------
(* Properties of get()                                                     *)

\* get() has sent its request and not yet handed control back
Requested == pc \in {"get_status", "get_returned", "get_raised"}

\* get() has ended, by return or by raise
Ended == pc \in {"get_returned", "get_raised"}

LastSent == sent[Len(sent)]

GivenCorpus == Has(kwargs, "corpusname")
GivenPlay   == Has(kwargs, "playname")
GivenMethod == Has(kwargs, "method")

\* a playname is only given together with a corpusname
ValidCombination == GivenPlay => GivenCorpus

\* base, then corpora/<corpus>, then /play/<play>, then the method suffix
Concatenation ==
    ApiBase(kwargs)
      \o (IF GivenCorpus THEN "corpora/" \o kwargs["corpusname"] ELSE "")
      \o (IF GivenPlay THEN "/play/" \o kwargs["playname"] ELSE "")
      \o (IF GivenMethod
          THEN (IF GivenCorpus THEN "/" ELSE "") \o kwargs["method"]
          ELSE "")

\* C1 as stated: for every valid combination of corpusname, playname and
\* method the requested URL is the concatenation base, corpora/<corpus>,
\* /play/<play>, method suffix.
C1_AsStated ==
    (Requested /\ ValidCombination) => LastSent.url = Concatenation

\* C1 amended: for every valid combination in which at least one of
\* corpusname, playname and method is given, the requested URL is that
\* concatenation; when none of the three is given it is base + "info".
\* corpusname="tat" alone targets <base>corpora/tat and method="corpora"
\* alone targets <base>corpora.
C1_RequestUrl ==
    (Requested /\ ValidCombination) =>
        /\ LastSent.verb = "GET"
        /\ LastSent.url = IF GivenCorpus \/ GivenPlay \/ GivenMethod
                          THEN Concatenation
                          ELSE ApiBase(kwargs) \o "info"
        /\ (DOMAIN kwargs = {"corpusname"} /\ kwargs["corpusname"] = "tat")
               => LastSent.url = "http://localhost:8088/api/corpora/tat"
        /\ (DOMAIN kwargs \subseteq {"method", "parse_json"} /\ GivenMethod
               /\ kwargs["method"] = "corpora")
               => LastSent.url = "http://localhost:8088/api/corpora"

\* a request for a play of a corpus with a method has been sent
C1_Witness ==
    /\ Requested
    /\ GivenCorpus /\ GivenPlay /\ GivenMethod /\ Has(kwargs, "apibase")
    /\ LastSent.url = "https://dracor.org/api/corpora/tat/play/emilia/tei"

\* the status code an error message carries: the number after the prefix
CarriedStatus(msg) ==
    IF Len(msg) > Len(ErrorPrefix) /\ SubSeq(msg, 1, Len(ErrorPrefix)) = ErrorPrefix
    THEN ToInt(SubSeq(msg, Len(ErrorPrefix) + 1, Len(msg)))
    ELSE -1

\* C2 as stated: when get() ends after a response with status s, then if
\* s is not 200 it has raised an error carrying s and returned no value,
\* and if s is 200 it has raised no error and returned a value.
C2_StatusDecides ==
    Ended =>
        IF get_r.status_code # 200
        THEN /\ pc = "get_raised"
             /\ CarriedStatus(exc) = get_r.status_code
             /\ ret = <<None>>
        ELSE /\ pc = "get_returned"
             /\ exc = None
             /\ ret # <<None>>

\* C5: every execution of get() sends exactly one GET: none before the
\* request step, one from then on, also after a non-200 response, and it
\* is the GET of request_url.
C5_SingleAttempt ==
    LET gets == { i \in 1..Len(sent) : sent[i].verb = "GET" }
    IN  /\ pc \in {"get_build", "get_request"} => gets = {}
        /\ Requested => /\ Cardinality(gets) = 1
                        /\ LastSent.verb = "GET"
                        /\ LastSent.url = request_url
                        /\ LastSent.status = get_r.status_code

\* get() has raised after a non-200 response
C5_Witness ==
    /\ pc = "get_raised"
    /\ get_r.status_code = 404
    /\ Len(sent) = 1

\* C6 as stated: on a 200 response get() returns the parsed JSON data
\* exactly when parse_json is given and True, and otherwise the response
\* text unchanged.
C6_ParseFlag ==
    (Ended /\ get_r.status_code = 200) =>
        IF Has(kwargs, "parse_json") /\ kwargs["parse_json"] = "True"
        THEN pc = "get_returned" /\ ret[1] = "json"
        ELSE pc = "get_returned" /\ ret = <<"text", get_r.text>>

-----------------------------------------------------------------------------
(* Properties of the HTTP calls of the notebook cells                      *)

\* the HTTP call that request i belongs to has been dealt with by its caller
Handled(i) == ~(i = Len(sent) /\ pc = "get_status")

\* C3 as stated: a non-200 response to any HTTP call -- the GET of get(),
\* the corpus-creation POST, the snapshot download GET, the play-storing
\* PUT -- raises the upstream-failure error carrying the status code of
\* that call.
C3_EveryCallRaises ==
    \A i \in 1..Len(sent) :
        (sent[i].status # 200 /\ Handled(i)) =>
            /\ exc # None
            /\ CarriedStatus(exc) = sent[i].status

IsSuccess(status) == status \in 200..299

\* the requests that downloaded the snapshot file
Downloads ==
    { i \in 1..Len(sent) : sent[i].verb = "GET" /\ sent[i].url = download_url }

Puts == { i \in 1..Len(sent) : sent[i].verb = "PUT" }

\* C4 as stated: if the download of the file returns a non-success
\* status, no PUT is issued afterwards.
C4_FailedDownloadAborts ==
    \A i \in Downloads :
        ~IsSuccess(sent[i].status) => \A j \in Puts : j < i

\* C7 as stated: for every filename of the form n + ".xml" the derived
\* identifier is exactly n, and identifier + ".xml" is the filename.
C7_StripExtension ==
    (playname # None /\ EndsWith(filename, ".xml")) =>
        /\ playname = SubSeq(filename, 1, Len(filename) - Len(".xml"))
        /\ playname \o ".xml" = filename

\* C8: the download URL is https://raw.githubusercontent.com/dracor-org/
\* + repository + "/" + commit + "/tei/" + filename; cut at "/" it reads
\* https:, (empty), host, org, repository, commit, path, file in that
\* order, and it is the URL the download request is sent to.
C8_DownloadUrl ==
    /\ pc = "cell_download" =>
          /\ download_url = "https://raw.githubusercontent.com/dracor-org/"
                                \o corpus_repo_part \o "/" \o commit_id
                                \o "/tei/" \o filename
          /\ Split(download_url, "/") =
                <<"https:", "", "raw.githubusercontent.com", "dracor-org",
                  corpus_repo_part, commit_id, "tei", filename>>
    /\ pc = "cell_playname" =>
          /\ LastSent.verb = "GET"
          /\ LastSent.url = download_url
          /\ EndsWith(LastSent.url, "/dracor-org/" \o corpus_repo_part \o "/"
                                       \o commit_id \o "/tei/" \o filename)

\* emilia.xml of gerdracor at commit bfadf6b has been requested
C8_Witness ==
    /\ pc = "cell_playname"
    /\ LastSent.url =
          "https://raw.githubusercontent.com/dracor-org/gerdracor/bfadf6b/tei/emilia.xml"

\* the code points that a sequence of UTF-8 bytes stands for
RECURSIVE Utf8Decode(_)
Utf8Decode(bytes) ==
    IF bytes = <<>> THEN <<>>
    ELSE LET b == bytes[1]
             n == IF b < 128 THEN 1 ELSE IF b < 224 THEN 2 ELSE IF b < 240 THEN 3 ELSE 4
             lead == IF b < 128 THEN b ELSE IF b < 224 THEN b - 192
                     ELSE IF b < 240 THEN b - 224 ELSE b - 240
             cont[k \in 1..n] == IF k = 1 THEN lead
                                 ELSE cont[k - 1] * 64 + (bytes[k] - 128)
         IN  <<cont[n]>> \o Utf8Decode(SubSeq(bytes, n + 1, Len(bytes)))

-----------------------------------------------------------------------------
(* Properties of the compose files                                         *)

\* position of service s in the order of starts, 0 if not started
Pos(s) ==
    IF \E i \in 1..Len(started) : started[i] = s
    THEN CHOOSE i \in 1..Len(started) : started[i] = s
    ELSE 0

\* the services reached from s by at most k depends_on steps
RECURSIVE Reach(_, _, _)
Reach(f, s, k) ==
    IF k = 0 THEN {}
    ELSE DependsOn(f, s) \cup UNION { Reach(f, d, k - 1) : d \in DependsOn(f, s) }

Acyclic(f) == \A s \in Services : s \notin Reach(f, s, Cardinality(Services))

StartedBefore(a, b) == Pos(b) > 0 => (Pos(a) > 0 /\ Pos(a) < Pos(b))

\* the starts so far respect the order api after metrics and fuseki,
\* frontend after api
C10_Order ==
    /\ \A f \in ComposeFiles : Acyclic(f)
    /\ StartedBefore("metrics", "api")
    /\ StartedBefore("fuseki", "api")
    /\ StartedBefore("api", "frontend")

\* C10: in both compose files depends_on is acyclic with api depending on
\* metrics and fuseki and frontend on api; in every start-up run api is
\* never started before metrics and fuseki, frontend never before api,
\* and all four services are eventually started.
C10_StartupOrder ==
    /\ []C10_Order
    /\ <>(\A s \in Services : Pos(s) > 0)

\* all four services of the full stack compose file are running
C10_Witness ==
    /\ file = FullstackYml
    /\ Len(started) = 4
    /\ Running = Services

\* the port in the authority of a URL scheme://host:port/path
UrlPort(url) == ToInt(Split(Split(url, "/")[3], ":")[2])

\* C11: both compose files declare exactly the services api, metrics,
\* frontend and fuseki, with the same port mappings api 8080:8080,
\* metrics 8030:8030, frontend 8088:80, fuseki 3030:3030; the host ports
\* are pairwise distinct, so the running containers never publish the same
\* one twice; and the host port of the frontend is the port of the default
\* API base URL of get().
C11_Ports ==
    file # None =>
        /\ Declared(file) = {"api", "metrics", "frontend", "fuseki"}
        /\ Running \subseteq Declared(file)
        /\ <<HostPort(file, "api"), ContainerPort(file, "api")>> = <<8080, 8080>>
        /\ <<HostPort(file, "metrics"), ContainerPort(file, "metrics")>> = <<8030, 8030>>
        /\ <<HostPort(file, "frontend"), ContainerPort(file, "frontend")>> = <<8088, 80>>
        /\ <<HostPort(file, "fuseki"), ContainerPort(file, "fuseki")>> = <<3030, 3030>>
        /\ \A f \in ComposeFiles : \A s \in Declared(file) :
              Ports(f, s) = Ports(file, s)
        /\ \A s, t \in Declared(file) :
              s # t => HostPort(file, s) # HostPort(file, t)
        /\ Cardinality(Published) = Cardinality(Running)
        /\ HostPort(file, "frontend") = UrlPort(DefaultApiBase)

\* the four services of docker-compose.empty.yml run and publish their ports
C11_Witness ==
    /\ file = EmptyYml
    /\ Running = Services
    /\ Published = {8080, 8030, 8088, 3030}

-----------------------------------------------------------------------------
(* Properties of the base URL and of the fallback to info                  *)

\* C12: for every apibase b that does not end in "/", get(apibase=b, ...)
\* and get(apibase=b + "/", ...) request the same URL whatever the other
\* arguments are; the base used is b + "/" in both cases, with no second
\* "/" after it, and normalising it again changes nothing; without an
\* apibase the base is http://localhost:8088/api/.
C12_BaseNormalised ==
    Requested =>
        IF Has(kwargs, "apibase")
        THEN LET a == kwargs["apibase"]
                 b == IF EndsWith(a, "/") THEN SubSeq(a, 1, Len(a) - 1) ELSE a
             IN  ~EndsWith(b, "/") =>
                   /\ LastSent.url = RequestUrl([kwargs EXCEPT !["apibase"] = b])
                   /\ LastSent.url = RequestUrl([kwargs EXCEPT !["apibase"] = b \o "/"])
                   /\ SubSeq(LastSent.url, 1, Len(b) + 1) = b \o "/"
                   /\ Char(LastSent.url, Len(b) + 2) # "/"
                   /\ ApiBase([kwargs EXCEPT !["apibase"] = ApiBase(kwargs)])
                         = ApiBase(kwargs)
        ELSE /\ SubSeq(LastSent.url, 1, 26) = "http://localhost:8088/api/"
             /\ Char(LastSent.url, 27) # "/"

\* a corpus has been requested from an apibase given with its final "/"
C12_Witness ==
    /\ Requested
    /\ Has(kwargs, "apibase")
    /\ kwargs["apibase"] = "https://dracor.org/api/"
    /\ LastSent.url = "https://dracor.org/api/corpora/tat"

\* the keyword arguments without playname and method
WithoutPlayAndMethod ==
    [k \in DOMAIN kwargs \ {"playname", "method"} |-> kwargs[k]]

\* C13: whichever of corpusname, playname and method are given, get() has
\* a request URL, made of the base and something after it, and that is the
\* URL it requests; with no corpusname and either a playname or no method
\* the URL is <base>info, the same as for the call without the playname
\* and without the method.
C13_InfoFallback ==
    /\ pc \in {"get_request", "get_status", "get_returned", "get_raised"} =>
          /\ request_url # None
          /\ Len(request_url) > Len(ApiBase(kwargs))
          /\ SubSeq(request_url, 1, Len(ApiBase(kwargs))) = ApiBase(kwargs)
    /\ Requested => LastSent.url = request_url
    /\ (Requested /\ ~GivenCorpus /\ (GivenPlay \/ ~GivenMethod)) =>
          /\ LastSent.url = ApiBase(kwargs) \o "info"
          /\ LastSent.url = RequestUrl(WithoutPlayAndMethod)

\* a playname and a method were given without a corpusname
C13_Witness ==
    /\ Requested
    /\ DOMAIN kwargs = {"playname", "method"}
    /\ kwargs["method"] = "tei"
    /\ LastSent.url = "http://localhost:8088/api/info"

====
